---- MODULE Spec2Model ----
(***************************************************************************)
(* Model of langchain/chains/llm.py: LLMChain._call (the sequential path)  *)
(* and ParallelChain._call (branch expansion, dispatch of the branches on  *)
(* a ThreadPoolExecutor through executor.map, flattening and output        *)
(* parsing).                                                               *)
(*                                                                         *)
(* Representation.  A python str used as an input value or inside a prompt *)
(* is a TLA+ string; a prompt is the sequence of its pieces.  An input     *)
(* value is a record [t, v]: t = "str" and v = <<s>> for the str s,        *)
(* t = "list" and v = the list.  A string generated by the backend is the  *)
(* sequence of its characters, so that a parser can split it.  None is     *)
(* "None" for a parser slot and None (-1) for an int slot.                 *)
(***************************************************************************)
EXTENDS Integers, Sequences, FiniteSets, Bags, TLC

\* Bounds of the model.
MaxListLen == 2      \* longest list given for variable "a"
MaxBranches == 4     \* most branches an invocation of the model expands to
MaxWorkers == 2      \* largest max_branching_factor configured
MaxBatch == 2        \* longest batch of inputs handed to an LLMChain
MaxInvocations == 2  \* most invocations running at the same time on one chain

None == -1

VARIABLES
    chain,      \* the chain configuration (pydantic fields of the chain object)
    inputs,     \* ParallelChain: the caller's input mapping of the invocation
    arg_n,      \* ParallelChain: the n argument of the invocation
    batch,      \* LLMChain: the inputs handed to the chain, one _call each
    pos,        \* LLMChain: number of inputs of the batch already handled
    records,    \* LLMChain: the OutputRecords returned so far
    generated,  \* LLMChain: the texts the backend generated, one per call answered
    raised_from, \* ParallelChain: index of the future whose exception was raised (0: none)
    invocations, \* the invocations of ParallelChain._call that run at the same time
                \* on the one chain, each with the locals of its own _call
    pc,         \* position of the caller: start, map, collect, cancel, returned, raised
    err,        \* the exception raised to the caller ("" when none)
    branches,   \* list_of_branches
    fs,         \* executor.map's futures, in submission order
    queue,      \* the executor's work queue (indexes into fs)
    taken,      \* work items a worker thread has got off the queue and not yet run
    running,    \* branches a worker thread runs branch_call for, before self.llm
    inflight,   \* branches whose self.llm call has been entered and not left
    collected,  \* list(responses) so far: results taken from the futures in order
    cancelling, \* the future the iterator's finally clause cancels next (0: not in it)
    output,     \* the value returned under output_key
    calls,      \* log of the backend: the bag of the self.llm calls entered
    reverse_order,  \* log of the backend: it has answered the calls so far in
                    \* the reverse of the branch order
    entered_in_order \* log of the backend: the calls so far were entered in
                    \* branch order

vars == <<chain, invocations, entered_in_order, taken, cancelling, inputs, arg_n, batch, generated, raised_from, pos, records, pc, err, branches, fs,
          queue, running, inflight, collected, output, calls, reverse_order>>

----------------------------------------------------------------------------
(* Values *)

Str(s) == [t |-> "str", v |-> <<s>>]
List(l) == [t |-> "list", v |-> l]

\* the empty mapping
EmptyMap == [k \in {} |-> Str("")]

\* bool(x) of an Optional[int]
Truthy(x) == x # None /\ x # 0

Min(a, b) == IF a < b THEN a ELSE b

RECURSIVE Prod(_)
Prod(lens) == IF lens = <<>> THEN 1 ELSE Head(lens) * Prod(Tail(lens))

----------------------------------------------------------------------------
(* Prompt formatting: the f-string formatter over a template of literal    *)
(* pieces and {variable} references.                                       *)

Lit(s) == [var |-> FALSE, s |-> s]
Var(s) == [var |-> TRUE, s |-> s]

RECURSIVE format(_, _)
format(template, kwargs) ==
    IF template = <<>> THEN <<>>
    ELSE LET p == Head(template)
         IN  <<IF p.var THEN kwargs[p.s] ELSE p.s>> \o format(Tail(template), kwargs)

TemplateFor(input_variables) ==
    IF Len(input_variables) = 1
    THEN <<Lit("Tell "), Var("a")>>
    ELSE <<Lit("Tell "), Var("a"), Lit(" and "), Var("b")>>

----------------------------------------------------------------------------
(* Branch expansion: ParallelChain._call, lines 108-129 *)

\* (mutant of selected) inputs.get(k, ""): a missing name reads as ""
selected_get(inp, input_variables) ==
    [ok |-> TRUE,
     sel |-> [k \in {input_variables[i] : i \in 1..Len(input_variables)} |->
                IF k \in DOMAIN inp THEN inp[k] ELSE Str("")]]

\* selected_inputs = {k: inputs[k] for k in self.prompt.input_variables}
\* Gives [ok, sel]: ok = FALSE when inputs[k] raises KeyError, a name missing.
selected(inp, input_variables) ==
    LET names == {input_variables[i] : i \in 1..Len(input_variables)}
    IN  IF names \subseteq DOMAIN inp
        THEN [ok |-> TRUE, sel |-> [k \in names |-> inp[k]]]
        ELSE [ok |-> FALSE, sel |-> EmptyMap]

\* the injected input parsers of the model: "tail" is lambda l: l[1:]
input_parser(p, l) ==
    IF p = "tail" THEN (IF l = <<>> THEN <<>> ELSE Tail(l)) ELSE l

\* (mutant of parse_inputs) the parser is applied to a list and again to
\* its result
parse_inputs_twice(p, sel) ==
    IF p = "None" THEN sel
    ELSE [k \in DOMAIN sel |->
            IF sel[k].t = "list"
            THEN List(input_parser(p, input_parser(p, sel[k].v))) ELSE sel[k]]

\* k: (self.input_parser(v) if isinstance(v, list) else v)
parse_inputs(p, sel) ==
    IF p = "None" THEN sel
    ELSE [k \in DOMAIN sel |->
            IF sel[k].t = "list" THEN List(input_parser(p, sel[k].v)) ELSE sel[k]]

\* def listify(i): a str becomes the one-element list [i], a list is returned
listify(i) == IF i.t = "str" THEN <<i.v[1]>> ELSE i.v

\* [listify(v) for k, v in selected_inputs.items()]: the dict was built in
\* the order of input_variables
list_of_selected_inputs(sel, input_variables) ==
    [i \in 1..Len(input_variables) |-> listify(sel[input_variables[i]])]

\* itertools.product: result = [[]];
\* for pool in pools: result = [x + [y] for x in result for y in pool]
RECURSIVE ForY(_, _)
ForY(x, pool) ==
    IF pool = <<>> THEN <<>>
    ELSE <<Append(x, Head(pool))>> \o ForY(x, Tail(pool))

\* (mutant of ForX) the loops exchanged: for y in pool for x in result
RECURSIVE ForX_pool_major(_, _)
ForX_pool_major(result, pool) ==
    IF pool = <<>> THEN <<>>
    ELSE [i \in 1..Len(result) |-> Append(result[i], Head(pool))]
            \o ForX_pool_major(result, Tail(pool))

RECURSIVE ForX(_, _)
ForX(result, pool) ==
    IF result = <<>> THEN <<>>
    ELSE ForY(Head(result), pool) \o ForX(Tail(result), pool)

RECURSIVE ProductFrom(_, _)
ProductFrom(result, pools) ==
    IF pools = <<>> THEN result
    ELSE ProductFrom(ForX(result, Head(pools)), Tail(pools))

\* (mutant of product) result = [] instead of [[]]
product_no_seed(pools) == ProductFrom(<<>>, pools)

product(pools) == ProductFrom(<< <<>> >>, pools)

\* {k: v for k, v in zip(self.prompt.input_variables, options)}
zip_dict(input_variables, options) ==
    LET m == Min(Len(input_variables), Len(options))
    IN  [k \in {input_variables[i] : i \in 1..m} |->
            options[CHOOSE i \in 1..m : input_variables[i] = k
                        /\ \A j \in (i+1)..m : input_variables[j] # k]]

\* list_of_branches
expand(sel, input_variables) ==
    LET opts == product(list_of_selected_inputs(sel, input_variables))
    IN  [i \in 1..Len(opts) |-> zip_dict(input_variables, opts[i])]

----------------------------------------------------------------------------
(* Flattening and output parsing: ParallelChain._call, lines 151-163 *)

\* (mutant of chain_lists) [r[0] for r in lists]: only the first completion of
\* each branch is kept
chain_lists_first(ls) == [i \in 1..Len(ls) |-> ls[i][1]]

\* itertools.chain(*lists)
RECURSIVE chain_lists(_)
chain_lists(ls) ==
    IF ls = <<>> THEN <<>> ELSE Head(ls) \o chain_lists(Tail(ls))

\* str.split(","), over a string given as the sequence of its characters
RECURSIVE SplitAcc(_, _)
SplitAcc(r, cur) ==
    IF r = <<>> THEN <<cur>>
    ELSE IF Head(r) = "," THEN <<cur>> \o SplitAcc(Tail(r), <<>>)
    ELSE SplitAcc(Tail(r), Append(cur, Head(r)))

split(r) == SplitAcc(r, <<>>)

\* The injected output parsers of the model, each returning [t, v]:
\* t = "list" with the list v, t = "str" with v = <<the string>>, or
\* t = "raise" when the parser raises.
\*   split        lambda r: r.split(",")
\*   first        lambda r: r.split(",")[0]           (not a list)
\*   after_comma  lambda r: r.split(",")[1:]          (may be empty)
\*   strict       like split, raising when r holds no comma
output_parser(p, r) ==
    CASE p = "split" -> [t |-> "list", v |-> split(r)]
      [] p = "first" -> [t |-> "str", v |-> <<split(r)[1]>>]
      [] p = "after_comma" -> [t |-> "list", v |-> Tail(split(r))]
      [] p = "strict" -> IF Len(split(r)) = 1
                           THEN [t |-> "raise", v |-> <<>>]
                           ELSE [t |-> "list", v |-> split(r)]

\* (mutant of parse_loop) parsed_responses = more instead of extend(more)
RECURSIVE parse_loop_overwrite(_, _, _)
parse_loop_overwrite(p, responses, parsed_responses) ==
    IF responses = <<>> THEN [ok |-> TRUE, out |-> parsed_responses]
    ELSE LET more == output_parser(p, Head(responses))
         IN  IF more.t = "raise" THEN [ok |-> FALSE, out |-> <<>>]
             ELSE parse_loop_overwrite(p, Tail(responses),
                        IF more.t # "list" THEN <<more.v[1]>> ELSE more.v)

\* (mutant of parse_loop) a string the parser raises on is skipped
RECURSIVE parse_loop_skip_raise(_, _, _)
parse_loop_skip_raise(p, responses, parsed_responses) ==
    IF responses = <<>> THEN [ok |-> TRUE, out |-> parsed_responses]
    ELSE LET more == output_parser(p, Head(responses))
         IN  parse_loop_skip_raise(p, Tail(responses),
                 parsed_responses \o
                    (IF more.t = "raise" THEN <<>>
                     ELSE IF more.t # "list" THEN <<more.v[1]>> ELSE more.v))

\* for r in responses: more = self.output_parser(r);
\*   if not isinstance(more, list): more = [more]
\*   parsed_responses.extend(more)
\* Gives [ok, out]: ok = FALSE when the parser raised.
RECURSIVE parse_loop(_, _, _)
parse_loop(p, responses, parsed_responses) ==
    IF responses = <<>> THEN [ok |-> TRUE, out |-> parsed_responses]
    ELSE LET more == output_parser(p, Head(responses))
         IN  IF more.t = "raise" THEN [ok |-> FALSE, out |-> <<>>]
             ELSE parse_loop(p, Tail(responses),
                     parsed_responses \o
                        (IF more.t # "list" THEN <<more.v[1]>> ELSE more.v))

post_process(p, responses) ==
    IF p # "None" THEN parse_loop(p, responses, <<>>)
    ELSE [ok |-> TRUE, out |-> responses]

----------------------------------------------------------------------------
(* The generation backend (self.llm), an external service: a call either   *)
(* raises or returns the completions asked for, each any of RawStrings.    *)

RawStrings == { <<"A", ",", "B">>, <<"C">> }

Responses(n) == [1..(IF n >= 1 THEN n ELSE 1) -> RawStrings]

\* (mutant of requested_n) n or self.n: the invocation's n comes first
requested_n_override_first(self_n, n) == IF Truthy(n) THEN n ELSE self_n

\* (mutant of stop_kwargs) branch_call never fills kwargs
stop_kwargs_empty(inp) == <<>>

\* kwargs = {}; if "stop" in inputs: kwargs["stop"] = inputs["stop"]
\* <<>> when no stop argument is passed, <<the stop list>> otherwise
stop_kwargs(inp) == IF "stop" \in DOMAIN inp THEN <<inp["stop"].v>> ELSE <<>>

\* n=self.n or n
requested_n(self_n, n) == IF Truthy(self_n) THEN self_n ELSE n

----------------------------------------------------------------------------
(* Initial states: a constructed chain and the arguments of its invocation *)

AValues == {Str("x")}
             \cup {List(SubSeq(<<"x", "y", "w", "v">>, 1, k)) : k \in 0..MaxListLen}
BValues == {Str("z"), List(<<"z", "u">>)}
StopValues == {List(<<"X">>)}

ValuesOf(k) == CASE k = "a" -> AValues [] k = "b" -> BValues [] k = "stop" -> StopValues

InputSets ==
    UNION { {f \in [K -> AValues \cup BValues \cup StopValues] :
                \A k \in K : f[k] \in ValuesOf(k)} : K \in SUBSET {"a", "b", "stop"} }

ParallelChain(iv, n, m, ip, op) ==
    [kind |-> "ParallelChain", input_variables |-> iv,
     template |-> TemplateFor(iv), output_key |-> "text", n |-> n,
     max_branching_factor |-> m, input_parser |-> ip, output_parser |-> op]

InputParsers == {"None", "tail"}
OutputParsers == {"None", "split", "first", "after_comma", "strict"}

\* The chains of the model: without parsers, every n and every pool size;
\* with each pair of parsers, the largest pool.  max_branching_factor is at
\* least 1: ThreadPoolExecutor rejects any other size with a ValueError.
ParallelChains ==
    { ParallelChain(iv, n, m, "None", "None") :
        iv \in {<<"a">>, <<"a", "b">>}, n \in {None, 1, 2}, m \in 1..MaxWorkers }
    \cup
    { ParallelChain(iv, None, MaxWorkers, ip, op) :
        iv \in {<<"a">>, <<"a", "b">>}, ip \in InputParsers, op \in OutputParsers }

\* An LLMChain has no n, max_branching_factor or parser field: the record
\* holds their neutral values, which LLMChainCall never reads.
LLMChains ==
    { [kind |-> "LLMChain", input_variables |-> iv,
       template |-> TemplateFor(iv), output_key |-> "text", n |-> None,
       max_branching_factor |-> 1, input_parser |-> "None",
       output_parser |-> "None"] : iv \in {<<"a">>, <<"a", "b">>} }

\* an LLMChain takes a str for every variable
ScalarInputSets == {f \in InputSets : \A k \in DOMAIN f \ {"stop"} : f[k].t = "str"}

Batches == UNION { [1..l -> ScalarInputSets] : l \in 1..MaxBatch }

Idle ==
    /\ pos = 0 /\ records = <<>> /\ pc = "start" /\ err = ""
    /\ branches = <<>> /\ fs = <<>> /\ queue = <<>>
    /\ running = {} /\ inflight = {} /\ collected = <<>>
    /\ output = <<>> /\ calls = EmptyBag /\ reverse_order = TRUE
    /\ generated = <<>> /\ raised_from = 0
    /\ taken = {} /\ cancelling = 0 /\ entered_in_order = TRUE

\* the number of branches the raw inputs expand to
BranchCount(inp) ==
    Prod([i \in 1..Len(<<"a", "b">>) |->
            IF <<"a", "b">>[i] \in DOMAIN inp
            THEN Len(listify(inp[<<"a", "b">>[i]])) ELSE 1])

Init ==
    /\ \/ /\ chain \in ParallelChains
          /\ inputs \in {f \in InputSets : BranchCount(f) <= MaxBranches}
          /\ arg_n \in {1, 2}
          /\ batch = <<>>
       \/ /\ chain \in LLMChains
          /\ batch \in Batches
          /\ inputs = EmptyMap
          /\ arg_n = None
    /\ invocations = <<>>
    /\ Idle

----------------------------------------------------------------------------
(* LLMChain._call, lines 52-63: one invocation, on the next input of the   *)
(* batch.  The backend's answer is one generated string.                   *)

\* (mutant of output_record) the record holds the first character of the text
output_record_head(output_key, response) ==
    [k \in {output_key} |-> <<Head(response)>>]

\* Line 63: return {self.output_key: response}
output_record(output_key, response) == [k \in {output_key} |-> response]

\* predict, lines 65-75: self(kwargs)[self.output_key]
predict(record) == record[chain.output_key]

LLMChainCall ==
    /\ chain.kind = "LLMChain"
    /\ pc = "start"
    /\ pos < Len(batch)
    /\ LET inp == batch[pos + 1]
           selected_inputs == selected(inp, chain.input_variables)
       IN
       IF ~selected_inputs.ok
       THEN /\ pc' = "raised"
            /\ err' = "KeyError"
            /\ UNCHANGED <<pos, records, calls, generated>>
       ELSE LET sel == selected_inputs.sel
                prompt == format(chain.template, [k \in DOMAIN sel |-> sel[k].v[1]])
                call == [branch |-> pos + 1, prompt |-> prompt, n |-> None,
                         stop |-> stop_kwargs(inp)]
            IN  /\ calls' = calls (+) SetToBag({call})
                /\ \/ \E response \in RawStrings :
                         /\ generated' = Append(generated, response)
                         /\ records' = Append(records,
                                              output_record(chain.output_key, response))
                         /\ pos' = pos + 1
                         /\ pc' = IF pos + 1 = Len(batch) THEN "returned" ELSE pc
                         /\ err' = err
                   \/ /\ pc' = "raised"
                      /\ err' = "BackendError"
                      /\ UNCHANGED <<pos, records, generated>>
    /\ UNCHANGED <<reverse_order, chain, invocations, entered_in_order, taken, cancelling, inputs, arg_n, batch, raised_from, branches, fs,
                   queue, running, inflight, collected, output>>

----------------------------------------------------------------------------
(* ParallelChain._call, lines 107-163 *)

\* a future of executor.map together with its work item's argument (the branch)
Future(branch, state, result, exc) ==
    [branch |-> branch, state |-> state, result |-> result, exc |-> exc]

\* (mutant of max_workers) a pool with one thread per submitted task
max_workers_per_task == Len(branches)

\* (mutant of max_workers) one thread fewer than configured
max_workers_one_fewer == chain.max_branching_factor - 1

\* executor = ThreadPoolExecutor(self.max_branching_factor): the number of
\* worker threads the pool may run
max_workers == chain.max_branching_factor

\* (mutant of ParallelCall) the parsed lists are written back into the
\* caller's mapping, inputs[k] = self.input_parser(v)
ParallelCall_in_place ==
    /\ chain.kind = "ParallelChain"
    /\ pc = "start"
    /\ LET selected_inputs == selected(inputs, chain.input_variables) IN
       IF ~selected_inputs.ok
       THEN /\ pc' = "raised"
            /\ err' = "KeyError"
            /\ UNCHANGED <<branches, inputs>>
       ELSE LET sel == parse_inputs(chain.input_parser, selected_inputs.sel)
            IN  /\ inputs' = [k \in DOMAIN inputs |->
                                IF k \in DOMAIN sel THEN sel[k] ELSE inputs[k]]
                /\ branches' = expand(sel, chain.input_variables)
                /\ pc' = IF branches' = <<>> THEN "collect" ELSE "map"
                /\ err' = err
    /\ UNCHANGED <<reverse_order, chain, invocations, entered_in_order, taken, cancelling, arg_n, batch, generated, raised_from, pos,
                   records, fs, queue, running, inflight, collected, output, calls>>

\* Lines 107-133 and 149: select the inputs (KeyError when a name is missing),
\* parse and expand them, create the executor and enter executor.map.
ParallelCall ==
    /\ chain.kind = "ParallelChain"
    /\ pc = "start"
    /\ LET selected_inputs == selected(inputs, chain.input_variables) IN
       IF ~selected_inputs.ok
       THEN /\ pc' = "raised"
            /\ err' = "KeyError"
            /\ UNCHANGED branches
       ELSE LET sel == parse_inputs(chain.input_parser, selected_inputs.sel)
            IN  /\ branches' = expand(sel, chain.input_variables)
                /\ pc' = IF branches' = <<>> THEN "collect" ELSE "map"
                /\ err' = err
    /\ UNCHANGED <<reverse_order, chain, invocations, entered_in_order, taken, cancelling, inputs, arg_n, batch, generated, raised_from, pos, records, fs, queue,
                   running, inflight, collected, output, calls>>

\* executor.map, fs = [self.submit(fn, *args) for args in zip(*iterables)]:
\* one submit, of the next branch in list order
Submit ==
    /\ pc = "map"
    /\ Len(fs) < Len(branches)
    /\ fs' = Append(fs, Future(branches[Len(fs) + 1], "PENDING", <<>>, ""))
    /\ queue' = Append(queue, Len(fs) + 1)
    /\ pc' = IF Len(fs) + 1 = Len(branches) THEN "collect" ELSE pc
    /\ UNCHANGED <<reverse_order, chain, invocations, entered_in_order, taken, cancelling, inputs, arg_n, batch, generated, raised_from, pos, records, err, branches,
                   running, inflight, collected, output, calls>>

\* _worker, work_item = work_queue.get(block=True): a worker thread of the
\* pool gets the next work item off the queue
WorkerTake ==
    /\ queue # <<>>
    /\ Cardinality(taken \cup running \cup inflight) < max_workers
    /\ taken' = taken \cup {Head(queue)}
    /\ queue' = Tail(queue)
    /\ UNCHANGED <<reverse_order, chain, invocations, entered_in_order, cancelling, inputs, arg_n, batch,
                   generated, raised_from, pos, records, pc, err, branches, fs, running,
                   inflight, collected, output, calls>>

\* _WorkItem.run, if not self.future.set_running_or_notify_cancel(): return.
\* The thread drops the item of a cancelled future; otherwise the future is
\* RUNNING and the thread starts branch_call (lines 135-145).
WorkItemRun(i) ==
    /\ i \in taken
    /\ taken' = taken \ {i}
    /\ IF fs[i].state = "CANCELLED"
       THEN UNCHANGED <<fs, running>>
       ELSE /\ fs' = [fs EXCEPT ![i].state = "RUNNING"]
            /\ running' = running \cup {i}
    /\ UNCHANGED <<reverse_order, chain, invocations, entered_in_order, cancelling, inputs, arg_n, batch,
                   generated, raised_from, pos, records, pc, err, branches, queue,
                   inflight, collected, output, calls>>

\* the backend has been entered for every branch before branch i
entered_before(i) ==
    \A j \in 1..(i - 1) : \E c \in BagToSet(calls) : c.branch = j

\* Line 146: the thread enters self.llm(prompt, n=self.n or n, **kwargs)
BackendEnter(i) ==
    /\ i \in running
    /\ running' = running \ {i}
    /\ inflight' = inflight \cup {i}
    /\ calls' = calls (+) SetToBag({[branch |-> i,
                               prompt |-> format(chain.template, fs[i].branch),
                               n |-> requested_n(chain.n, arg_n),
                               stop |-> stop_kwargs(inputs)]})
    /\ entered_in_order' = (entered_in_order /\ entered_before(i))
    /\ UNCHANGED <<reverse_order, chain, invocations, taken, cancelling, inputs, arg_n, batch,
                   generated, raised_from, pos, records, pc, err, branches, fs, queue,
                   collected, output>>

\* the backend answers the call of branch i before the call of any branch
\* before it and after the calls of all the branches after it
answered_last(i) ==
    /\ \A j \in 1..(i - 1) : fs[j].state # "FINISHED"
    /\ \A j \in (i + 1)..Len(branches) : j <= Len(fs) /\ fs[j].state = "FINISHED"

\* the backend returns: the future gets branch_call's result
BackendReturn(i) ==
    /\ i \in inflight
    /\ \E response \in Responses(requested_n(chain.n, arg_n)) :
          fs' = [fs EXCEPT ![i] = Future(fs[i].branch, "FINISHED", response, "")]
    /\ inflight' = inflight \ {i}
    /\ reverse_order' = (reverse_order /\ answered_last(i))
    /\ UNCHANGED <<chain, invocations, entered_in_order, taken, cancelling, inputs, arg_n, batch, generated, raised_from, pos, records, pc, err, branches,
                   queue, running, collected, output, calls>>

\* (mutant of BackendFail) branch_call retries a failed call: the thread
\* goes back to before self.llm
BackendFail_retry(i) ==
    /\ i \in inflight
    /\ BagCardinality(calls) < 2 * Len(branches)
    /\ inflight' = inflight \ {i}
    /\ running' = running \cup {i}
    /\ UNCHANGED <<reverse_order, chain, invocations, entered_in_order, taken, cancelling, inputs, arg_n, batch, generated, raised_from, pos,
                   records, pc, err, branches, fs, queue, collected, output, calls>>

\* the backend raises: the future gets the exception
BackendFail(i) ==
    /\ i \in inflight
    /\ fs' = [fs EXCEPT ![i] = Future(fs[i].branch, "FINISHED", <<>>, "BackendError")]
    /\ inflight' = inflight \ {i}
    /\ reverse_order' = (reverse_order /\ answered_last(i))
    /\ UNCHANGED <<chain, invocations, entered_in_order, taken, cancelling, inputs, arg_n, batch, generated, raised_from, pos, records, pc, err, branches,
                   queue, running, collected, output, calls>>

\* Future.cancel(): a PENDING future becomes CANCELLED, a RUNNING or
\* FINISHED one is left as it is
cancel(f) ==
    IF f.state = "PENDING" THEN Future(f.branch, "CANCELLED", <<>>, "") ELSE f

\* (mutant of next_future) as_completed instead of submission order: a
\* future that already holds an exception is yielded first
next_future_failed_first ==
    LET failed == {j \in 1..Len(fs) : fs[j].state = "FINISHED" /\ fs[j].exc # ""}
    IN  IF failed # {}
        THEN CHOOSE j \in failed : \A h \in failed : h <= j
        ELSE Len(collected) + 1

\* (mutant of next_future) fs.pop() without fs.reverse(): the last not yet
\* yielded
next_future_from_end == Len(fs) - Len(collected)

\* (mutant of raises) the exception of a failed call is swallowed
raises_never(f) == FALSE

\* the future executor.map's iterator yields next: the first not yet yielded
next_future == Len(collected) + 1

\* future.result() raises the exception the call ended with, if any
raises(f) == f.exc # ""

\* Line 151, list(responses): the iterator yields the result of the next
\* future in submission order, waiting until it is done; a future holding an
\* exception raises it into the iterator's finally clause.
Collect ==
    /\ pc = "collect"
    /\ Len(collected) < Len(fs)
    /\ LET k == next_future IN
       /\ fs[k].state = "FINISHED"
       /\ IF ~raises(fs[k])
          THEN /\ collected' = Append(collected, fs[k].result)
               /\ UNCHANGED <<pc, raised_from, cancelling>>
          ELSE /\ pc' = "cancel"
               /\ raised_from' = k
               /\ cancelling' = Len(fs)
               /\ UNCHANGED collected
    /\ UNCHANGED <<reverse_order, chain, invocations, entered_in_order, taken, inputs, arg_n, batch, generated,
                   pos, records, err, branches, fs, queue, running, inflight, output, calls>>

\* Line 151, the finally clause of executor.map's result_iterator,
\* for future in fs: future.cancel(): one call, on the last submitted of the
\* futures not yet cancelled
Cancel ==
    /\ pc = "cancel"
    /\ cancelling > raised_from
    /\ fs' = [fs EXCEPT ![cancelling] = cancel(fs[cancelling])]
    /\ cancelling' = cancelling - 1
    /\ UNCHANGED <<reverse_order, chain, invocations, entered_in_order, taken, inputs, arg_n, batch, generated,
                   raised_from, pos, records, pc, err, branches, queue, running, inflight,
                   collected, output, calls>>

\* Line 151: the finally clause is over and the exception leaves _call
Raise ==
    /\ pc = "cancel"
    /\ cancelling = raised_from
    /\ pc' = "raised"
    /\ err' = fs[raised_from].exc
    /\ UNCHANGED <<reverse_order, chain, invocations, entered_in_order, taken, cancelling, inputs, arg_n, batch,
                   generated, raised_from, pos, records, branches, fs, queue, running,
                   inflight, collected, output, calls>>

\* Lines 151-163: flatten, parse, return {self.output_key: responses}
Finish ==
    /\ chain.kind = "ParallelChain"
    /\ pc = "collect"
    /\ Len(collected) = Len(fs)
    /\ LET r == post_process(chain.output_parser, chain_lists(collected)) IN
       IF r.ok
       THEN /\ output' = r.out
            /\ pc' = "returned"
            /\ err' = err
       ELSE /\ pc' = "raised"
            /\ err' = "ParserError"
            /\ UNCHANGED output
    /\ UNCHANGED <<reverse_order, chain, invocations, entered_in_order, taken, cancelling, inputs, arg_n, batch, generated, raised_from, pos, records, branches, fs,
                   queue, running, inflight, collected, calls>>

Next ==
    \/ LLMChainCall
    \/ ParallelCall
    \/ Submit
    \/ WorkerTake
    \/ \E i \in 1..Len(fs) : WorkItemRun(i)
    \/ \E i \in 1..Len(fs) : BackendEnter(i)
    \/ \E i \in 1..Len(fs) : BackendReturn(i)
    \/ \E i \in 1..Len(fs) : BackendFail(i)
    \/ Collect
    \/ Cancel
    \/ Raise
    \/ Finish

Spec == Init /\ [][Next]_vars

\* the invocations whose backend calls ask for one completion each
FairInit == Init /\ chain.n = None /\ arg_n \in {None, 1}

\* Spec with the scheduling the threads get: the caller's thread and the
\* pool's worker threads are not starved, and a backend call that can return
\* does return.
FairSpec ==
    /\ FairInit
    /\ [][Next]_vars
    /\ WF_vars(ParallelCall)
    /\ WF_vars(Submit)
    /\ WF_vars(WorkerTake)
    /\ \A i \in 1..MaxBranches : WF_vars(WorkItemRun(i))
    /\ \A i \in 1..MaxBranches : WF_vars(BackendEnter(i))
    /\ \A i \in 1..MaxBranches : WF_vars(BackendReturn(i))
    /\ WF_vars(Collect)
    /\ WF_vars(Cancel)
    /\ WF_vars(Raise)
    /\ WF_vars(Finish)

----------------------------------------------------------------------------
(* Several invocations of ParallelChain._call at the same time on one      *)
(* chain: every invocation runs lines 107-163 on locals of its own, the    *)
(* executor of line 149 among them.                                        *)

\* the locals of one invocation, before its first statement
Invocation(inp, n) ==
    [inputs |-> inp, arg_n |-> n, pc |-> "start", err |-> "", branches |-> <<>>,
     fs |-> <<>>, queue |-> <<>>, taken |-> {}, running |-> {}, inflight |-> {},
     collected |-> <<>>, raised_from |-> 0, cancelling |-> 0, output |-> <<>>]

\* the callers' inputs: one branch or two for the one variable "a"
ConcurrentInputs ==
    { [k \in {"a"} |-> Str("x")], [k \in {"a"} |-> List(<<"x", "y">>)] }

\* the backend's answers to the concurrent invocations: n times the one
\* text "C" (the pool does not look at what a call returns)
ConcurrentResponses(n) == [1..(IF n >= 1 THEN n ELSE 1) -> {<<"C">>}]

ConcurrentInit ==
    /\ chain \in {ParallelChain(<<"a">>, None, m, "None", "None") : m \in 1..MaxWorkers}
    /\ invocations \in [1..MaxInvocations -> {Invocation(inp, 1) : inp \in ConcurrentInputs}]
    /\ inputs = EmptyMap /\ arg_n = None /\ batch = <<>>
    /\ Idle

\* the variables of the single invocation of Spec
single == <<entered_in_order, taken, cancelling, inputs, arg_n, batch, generated, raised_from, pos, records, pc, err, branches,
            fs, queue, running, inflight, collected, output, calls, reverse_order>>

\* (mutant of busy_workers) one executor for the chain: its threads are busy
\* with the branches of all the invocations
busy_workers_of_chain(v) ==
    LET all == UNION {{<<w, i>> : i \in invocations[w].taken \cup invocations[w].running
                                            \cup invocations[w].inflight} :
                        w \in DOMAIN invocations}
    IN  Cardinality(all)

\* the busy threads of the executor invocation v created for itself
busy_workers(v) ==
    Cardinality(invocations[v].taken \cup invocations[v].running
                    \cup invocations[v].inflight)

\* lines 107-133 and 149 of invocation v
ConcurrentCall(v) ==
    LET s == invocations[v]
        selected_inputs == selected(s.inputs, chain.input_variables)
    IN  /\ s.pc = "start"
        /\ IF ~selected_inputs.ok
           THEN invocations' = [invocations EXCEPT ![v].pc = "raised",
                                                   ![v].err = "KeyError"]
           ELSE LET sel == parse_inputs(chain.input_parser, selected_inputs.sel)
                    bs == expand(sel, chain.input_variables)
                IN  invocations' = [invocations EXCEPT
                                      ![v].branches = bs,
                                      ![v].pc = IF bs = <<>> THEN "collect" ELSE "map"]
        /\ UNCHANGED <<chain, single>>

\* executor.map of invocation v submits its next branch
ConcurrentSubmit(v) ==
    LET s == invocations[v] IN
    /\ s.pc = "map"
    /\ Len(s.fs) < Len(s.branches)
    /\ invocations' = [invocations EXCEPT
          ![v].fs = Append(s.fs, Future(s.branches[Len(s.fs) + 1], "PENDING", <<>>, "")),
          ![v].queue = Append(s.queue, Len(s.fs) + 1),
          ![v].pc = IF Len(s.fs) + 1 = Len(s.branches) THEN "collect" ELSE s.pc]
    /\ UNCHANGED <<chain, single>>

\* a worker thread of invocation v's executor gets the next work item off
\* the queue
ConcurrentWorkerTake(v) ==
    LET s == invocations[v] IN
    /\ s.queue # <<>>
    /\ busy_workers(v) < max_workers
    /\ invocations' = [invocations EXCEPT ![v].queue = Tail(s.queue),
                                          ![v].taken = s.taken \cup {Head(s.queue)}]
    /\ UNCHANGED <<chain, single>>

\* the thread runs the work item of branch i of invocation v, or drops it
\* when the future is cancelled
ConcurrentWorkItemRun(v, i) ==
    LET s == invocations[v] IN
    /\ i \in s.taken
    /\ IF s.fs[i].state = "CANCELLED"
       THEN invocations' = [invocations EXCEPT ![v].taken = s.taken \ {i}]
       ELSE invocations' = [invocations EXCEPT
                              ![v].taken = s.taken \ {i},
                              ![v].fs = [s.fs EXCEPT ![i].state = "RUNNING"],
                              ![v].running = s.running \cup {i}]
    /\ UNCHANGED <<chain, single>>

\* the thread of branch i of invocation v enters self.llm
ConcurrentBackendEnter(v, i) ==
    LET s == invocations[v] IN
    /\ i \in s.running
    /\ invocations' = [invocations EXCEPT ![v].running = s.running \ {i},
                                          ![v].inflight = s.inflight \cup {i}]
    /\ UNCHANGED <<chain, single>>

\* the backend returns to branch i of invocation v
ConcurrentBackendReturn(v, i) ==
    LET s == invocations[v] IN
    /\ i \in s.inflight
    /\ \E response \in ConcurrentResponses(requested_n(chain.n, s.arg_n)) :
          invocations' = [invocations EXCEPT
              ![v].fs = [s.fs EXCEPT ![i] = Future(s.fs[i].branch, "FINISHED", response, "")],
              ![v].inflight = s.inflight \ {i}]
    /\ UNCHANGED <<chain, single>>

\* the backend raises in branch i of invocation v
ConcurrentBackendFail(v, i) ==
    LET s == invocations[v] IN
    /\ i \in s.inflight
    /\ invocations' = [invocations EXCEPT
          ![v].fs = [s.fs EXCEPT ![i] = Future(s.fs[i].branch, "FINISHED", <<>>, "BackendError")],
          ![v].inflight = s.inflight \ {i}]
    /\ UNCHANGED <<chain, single>>

\* list(responses) of invocation v takes its next future in submission order
ConcurrentCollect(v) ==
    LET s == invocations[v]
        k == Len(s.collected) + 1
    IN  /\ s.pc = "collect"
        /\ Len(s.collected) < Len(s.fs)
        /\ s.fs[k].state = "FINISHED"
        /\ IF ~raises(s.fs[k])
           THEN invocations' = [invocations EXCEPT
                                  ![v].collected = Append(s.collected, s.fs[k].result)]
           ELSE invocations' = [invocations EXCEPT
                                  ![v].pc = "cancel",
                                  ![v].raised_from = k,
                                  ![v].cancelling = Len(s.fs)]
        /\ UNCHANGED <<chain, single>>

\* one future.cancel() of the finally clause of invocation v's iterator
ConcurrentCancel(v) ==
    LET s == invocations[v] IN
    /\ s.pc = "cancel"
    /\ s.cancelling > s.raised_from
    /\ invocations' = [invocations EXCEPT
          ![v].fs = [s.fs EXCEPT ![s.cancelling] = cancel(s.fs[s.cancelling])],
          ![v].cancelling = s.cancelling - 1]
    /\ UNCHANGED <<chain, single>>

\* the exception leaves invocation v
ConcurrentRaise(v) ==
    LET s == invocations[v] IN
    /\ s.pc = "cancel"
    /\ s.cancelling = s.raised_from
    /\ invocations' = [invocations EXCEPT ![v].pc = "raised",
                                          ![v].err = s.fs[s.raised_from].exc]
    /\ UNCHANGED <<chain, single>>

\* lines 151-163 of invocation v
ConcurrentFinish(v) ==
    LET s == invocations[v]
        r == post_process(chain.output_parser, chain_lists(s.collected))
    IN  /\ s.pc = "collect"
        /\ Len(s.collected) = Len(s.fs)
        /\ IF r.ok
           THEN invocations' = [invocations EXCEPT ![v].output = r.out,
                                                   ![v].pc = "returned"]
           ELSE invocations' = [invocations EXCEPT ![v].pc = "raised",
                                                   ![v].err = "ParserError"]
        /\ UNCHANGED <<chain, single>>

ConcurrentNext ==
    \/ \E v \in DOMAIN invocations : ConcurrentCall(v)
    \/ \E v \in DOMAIN invocations : ConcurrentSubmit(v)
    \/ \E v \in DOMAIN invocations : ConcurrentWorkerTake(v)
    \/ \E v \in DOMAIN invocations :
          \E i \in 1..Len(invocations[v].fs) : ConcurrentWorkItemRun(v, i)
    \/ \E v \in DOMAIN invocations :
          \E i \in 1..Len(invocations[v].fs) : ConcurrentBackendEnter(v, i)
    \/ \E v \in DOMAIN invocations :
          \E i \in 1..Len(invocations[v].fs) : ConcurrentBackendReturn(v, i)
    \/ \E v \in DOMAIN invocations :
          \E i \in 1..Len(invocations[v].fs) : ConcurrentBackendFail(v, i)
    \/ \E v \in DOMAIN invocations : ConcurrentCollect(v)
    \/ \E v \in DOMAIN invocations : ConcurrentCancel(v)
    \/ \E v \in DOMAIN invocations : ConcurrentRaise(v)
    \/ \E v \in DOMAIN invocations : ConcurrentFinish(v)

ConcurrentSpec == ConcurrentInit /\ [][ConcurrentNext]_vars

----------------------------------------------------------------------------
(* Properties *)

IsParallel == chain.kind = "ParallelChain"

Failed(i) == fs[i].state = "FINISHED" /\ fs[i].exc # ""
Succeeded(i) == fs[i].state = "FINISHED" /\ fs[i].exc = ""

\* the backend calls entered for branch (or batch input) i
CallsOf(i) == {c \in BagToSet(calls) : c.branch = i}

\* the results of branches 1..k, one after the other
RECURSIVE ConcatResults(_)
ConcatResults(k) ==
    IF k = 0 THEN <<>> ELSE ConcatResults(k - 1) \o fs[k].result

\* C1: within one ParallelChain._call invocation the number of backend calls
\* in flight never exceeds max_branching_factor, however many branches there
\* are and however the backend's completions interleave.
C1_InFlightBounded ==
    IsParallel =>
        /\ Cardinality(inflight) <= chain.max_branching_factor
        /\ Cardinality(taken \cup running \cup inflight) <= chain.max_branching_factor

\* more branches than max_branching_factor, the pool saturated with calls in
\* flight and a branch still queued
C1_Witness ==
    /\ IsParallel
    /\ Len(branches) > chain.max_branching_factor
    /\ Cardinality(inflight) = chain.max_branching_factor
    /\ chain.max_branching_factor >= 2
    /\ queue # <<>>

\* C2: the aggregated output is the concatenation of the branches' results in
\* branch submission order (within a branch, in the backend's order), for
\* every order in which the backend completes the calls.
C2_OrderPreserved ==
    (IsParallel /\ pc = "returned") =>
        /\ Len(fs) = Len(branches)
        /\ \A i \in 1..Len(fs) : fs[i].branch = branches[i] /\ Succeeded(i)
        /\ collected = [i \in 1..Len(fs) |-> fs[i].result]
        /\ chain.output_parser = "None" => output = ConcatResults(Len(fs))

\* the backend completed two or more branches in reverse order, with
\* different results, and the invocation returned
C2_Witness ==
    /\ IsParallel /\ pc = "returned"
    /\ chain.output_parser = "None"
    /\ Len(branches) >= 2
    /\ reverse_order
    /\ fs[1].result # fs[2].result
    /\ output = fs[1].result \o fs[2].result

\* C3: if any branch's backend call fails the invocation never returns an
\* OutputRecord: the results are never collected past the failed branch, no
\* output is produced, and the invocation can only end by raising the
\* backend's error to the caller.
C3_NoPartialOutput ==
    IsParallel =>
        \A i \in 1..Len(fs) :
            Failed(i) =>
                /\ pc # "returned"
                /\ output = <<>>
                /\ Len(collected) < i
                /\ pc = "raised" => err = "BackendError"
                /\ ~ENABLED Next => pc = "raised"

\* a branch failed after another had succeeded, and the caller got the error
C3_Witness ==
    /\ IsParallel /\ pc = "raised" /\ err = "BackendError"
    /\ \E i, j \in 1..Len(fs) : Failed(i) /\ Succeeded(j) /\ fs[j].result # <<>>
    /\ output = <<>>

\* C4: when a branch's backend call fails the dispatcher waits for all the
\* submitted work to settle: at the moment the error is raised to the caller
\* no backend call of the invocation is still in flight.
C4_Claim ==
    [][(IsParallel /\ pc # "raised" /\ pc' = "raised" /\ err' = "BackendError")
            => inflight' = {}]_vars

\* what the code does instead: the error is raised once the failed branch is
\* the next to be collected and the later futures have had their cancel():
\* every branch before it has succeeded and was collected; of the branches
\* after it, those a worker has started stay running (in the backend or
\* about to enter it), and those no worker has started are cancelled and
\* never reach the backend
RaisedAtFirstFailure ==
    (IsParallel /\ pc = "raised" /\ err = "BackendError") =>
        \E k \in 1..Len(fs) :
            /\ Failed(k)
            /\ Len(collected) = k - 1
            /\ \A j \in 1..(k - 1) : Succeeded(j)
            /\ \A j \in (k + 1)..Len(fs) :
                /\ fs[j].state # "PENDING"
                /\ j \in running \cup inflight => fs[j].state = "RUNNING"
                /\ fs[j].state = "CANCELLED" =>
                        j \notin running \cup inflight /\ CallsOf(j) = {}

\* the error was raised while a later branch is in flight and another was
\* cancelled
RaisedWhileInFlight ==
    /\ IsParallel /\ pc = "raised" /\ err = "BackendError"
    /\ \E j, l \in 1..Len(fs) :
          /\ j \in inflight /\ fs[j].state = "RUNNING"
          /\ fs[l].state = "CANCELLED"

\* the invocation got past the selection of its inputs and expanded them
Expanded == IsParallel /\ pc # "start" /\ err # "KeyError"

NameSet(input_variables) == {input_variables[i] : i \in 1..Len(input_variables)}

\* the value sequence of the i-th declared variable: a scalar counts as a
\* one-element sequence, a list is the list the input parser (if any) gives
Pool(i) ==
    LET v == inputs[chain.input_variables[i]]
    IN  IF v.t = "str" THEN <<v.v[1]>>
        ELSE IF chain.input_parser = "tail" THEN SubSeq(v.v, 2, Len(v.v))
        ELSE v.v

\* the number of combinations of the variables after the i-th
RECURSIVE Stride(_)
Stride(i) ==
    IF i >= Len(chain.input_variables) THEN 1
    ELSE Len(Pool(i + 1)) * Stride(i + 1)

\* the position in Pool(i) of the value of the k-th combination, the
\* combinations taken in lexicographic order
Digit(k, i) == (((k - 1) \div Stride(i)) % Len(Pool(i))) + 1

\* the branches are the cartesian product of the per-variable value
\* sequences in lexicographic order over the variables in declared order,
\* each branch mapping every variable to its chosen value
IsLexicographicProduct ==
    /\ Len(branches) = Len(Pool(1)) * Stride(1)
    /\ \A k \in 1..Len(branches) :
          /\ DOMAIN branches[k] = NameSet(chain.input_variables)
          /\ \A i \in 1..Len(chain.input_variables) :
                branches[k][chain.input_variables[i]] = Pool(i)[Digit(k, i)]

\* C5 as claimed: the branches are the lexicographic product, and the
\* backend calls of the branches are entered in that order.
C5_Original ==
    Expanded => (IsLexicographicProduct /\ entered_in_order)

\* C5 amended: the branches are the lexicographic product; they are handed to
\* the worker pool in that order and the workers take them off the queue in
\* that order; the backend calls are entered in that order when the pool has
\* one worker (with more workers a later branch's call may be entered first).
C5_LexicographicProduct ==
    Expanded =>
        /\ IsLexicographicProduct
        /\ \A i \in 1..Len(fs) : fs[i].branch = branches[i]
        /\ Len(queue) <= Len(fs)
        /\ \A i \in 1..Len(queue) : queue[i] = Len(fs) - Len(queue) + i
        /\ chain.max_branching_factor = 1 => entered_in_order

\* {a: ["x","y"], b: "z"} expanded to [{a:"x",b:"z"}, {a:"y",b:"z"}]; on a
\* pool of one worker the backend was entered for the first branch, then for
\* the second
C5_Witness ==
    /\ IsParallel
    /\ chain.input_variables = <<"a", "b">>
    /\ inputs = [k \in {"a", "b"} |-> IF k = "a" THEN List(<<"x", "y">>) ELSE Str("z")]
    /\ chain.input_parser = "None"
    /\ branches = << [k \in {"a", "b"} |-> IF k = "a" THEN "x" ELSE "z"],
                     [k \in {"a", "b"} |-> IF k = "a" THEN "y" ELSE "z"] >>
    /\ Len(fs) = 2
    /\ chain.max_branching_factor = 1
    /\ CallsOf(1) # {} /\ CallsOf(2) # {}
    /\ entered_in_order

\* the same branches on a pool of two workers: the backend was entered for
\* the second branch while the first had not yet entered it
EnteredOutOfOrder ==
    /\ IsParallel
    /\ Len(branches) = 2 /\ Len(fs) = 2
    /\ chain.max_branching_factor = 2
    /\ CallsOf(2) # {} /\ CallsOf(1) = {}
    /\ 1 \in running
    /\ ~entered_in_order

AllScalar(inp) == \A k \in DOMAIN inp : inp[k].t = "str"

\* a branch equal to an input set: the same names, with the same values
BranchEquals(b, inp) ==
    /\ DOMAIN b = DOMAIN inp
    /\ \A k \in DOMAIN b : inp[k].t = "str" /\ b[k] = inp[k].v[1]

\* C6 as claimed: an input set whose values are all scalar expands to exactly
\* one branch, equal to the input set.
C6_Original ==
    (Expanded /\ AllScalar(inputs)) =>
        Len(branches) = 1 /\ BranchEquals(branches[1], inputs)

\* C6 amended: an input set whose values are all scalar expands to exactly one
\* branch, which maps each variable the template requires to the input set's
\* value for it; it is equal to the input set when the input set holds no
\* other name.
C6_OneBranchOfRequiredNames ==
    (Expanded /\ AllScalar(inputs)) =>
        /\ Len(branches) = 1
        /\ DOMAIN branches[1] = NameSet(chain.input_variables)
        /\ \A k \in DOMAIN branches[1] : branches[1][k] = inputs[k].v[1]
        /\ DOMAIN inputs = NameSet(chain.input_variables)
              => BranchEquals(branches[1], inputs)

\* {a: "x", b: "z"} for a template over a and b: one branch, the input set,
\* sent to the backend once
C6_Witness ==
    /\ IsParallel /\ pc = "returned"
    /\ chain.input_variables = <<"a", "b">>
    /\ DOMAIN inputs = {"a", "b"} /\ AllScalar(inputs)
    /\ Len(branches) = 1 /\ BranchEquals(branches[1], inputs)
    /\ BagCardinality(calls) = 1

\* the input set lacks a name the template requires
Missing(inp) ==
    \E i \in 1..Len(chain.input_variables) : chain.input_variables[i] \notin DOMAIN inp

\* C7: an invocation whose input set lacks a name the template requires
\* fails with the missing-variable error (KeyError) and issues no backend
\* call at any point.
C7_MissingVariableNoCall ==
    /\ (IsParallel /\ Missing(inputs)) =>
          /\ calls = EmptyBag /\ fs = <<>> /\ branches = <<>> /\ output = <<>>
          /\ pc \in {"start", "raised"}
          /\ pc = "raised" => err = "KeyError"
    /\ ~IsParallel =>
          \A k \in 1..Len(batch) :
              Missing(batch[k]) =>
                  /\ pos < k /\ Len(records) < k
                  /\ CallsOf(k) = {}
                  /\ (pos = k - 1 /\ pc = "raised") => err = "KeyError"

\* a template requiring a, invoked with the input set {}: KeyError
C7_Witness ==
    /\ IsParallel
    /\ inputs = EmptyMap
    /\ pc = "raised" /\ err = "KeyError"
    /\ calls = EmptyBag

\* one input of the batch has a stop key and another has none
MixedStop ==
    \E i, j \in 1..Len(batch) :
        "stop" \in DOMAIN batch[i] /\ "stop" \notin DOMAIN batch[j]

\* C8 as claimed: an LLMChain given a batch with one input holding stop and
\* another without fails before any backend call is made.
C8_Claim ==
    (chain.kind = "LLMChain" /\ MixedStop) => (calls = EmptyBag /\ pc # "returned")

\* the outputs of parsing each raw string, one after the other, a result
\* that is not a list counting as a one-element list
RECURSIVE ParsedConcat(_, _)
ParsedConcat(p, raw) ==
    IF raw = <<>> THEN <<>>
    ELSE LET more == output_parser(p, raw[Len(raw)])
         IN  ParsedConcat(p, SubSeq(raw, 1, Len(raw) - 1))
                \o (IF more.t = "str" THEN <<more.v[1]>> ELSE more.v)

\* C9: with an output parser configured, the returned value is the in-order
\* concatenation of parser(r) over the flattened raw strings r, a non-list
\* result counting as a one-element list.
C9_ParsedConcatenation ==
    (IsParallel /\ pc = "returned" /\ chain.output_parser # "None") =>
        output = ParsedConcat(chain.output_parser, ConcatResults(Len(fs)))

\* raw ["A,B", "C"] with the comma-splitting parser gives ["A", "B", "C"]
C9_Witness ==
    /\ IsParallel /\ pc = "returned"
    /\ chain.output_parser = "split"
    /\ ConcatResults(Len(fs)) = << <<"A", ",", "B">>, <<"C">> >>
    /\ output = << <<"A">>, <<"B">>, <<"C">> >>

\* the number of strings the branches 1..k returned
RECURSIVE SumLen(_)
SumLen(k) == IF k = 0 THEN 0 ELSE SumLen(k - 1) + Len(fs[k].result)

\* C10: without an output parser a successful invocation returns exactly the
\* flattened raw strings of the backend: the same length, content and order.
C10_RawUnchanged ==
    (IsParallel /\ pc = "returned" /\ chain.output_parser = "None") =>
        /\ Len(output) = SumLen(Len(fs))
        /\ \A i \in 1..Len(fs) :
              \A j \in 1..Len(fs[i].result) :
                  output[SumLen(i - 1) + j] = fs[i].result[j]

\* two branches of two completions each returned, no parser: four raw strings
C10_Witness ==
    /\ IsParallel /\ pc = "returned"
    /\ chain.output_parser = "None"
    /\ Len(fs) = 2
    /\ Len(fs[1].result) = 2 /\ Len(fs[2].result) = 2
    /\ output = fs[1].result \o fs[2].result
    /\ output[1] # output[2]

\* the prompt LLMChain sends for input k of the batch: the template's text
\* with the input's values in place of the variables
PromptOf(k) ==
    IF Len(chain.input_variables) = 1
    THEN <<"Tell ", batch[k]["a"].v[1]>>
    ELSE <<"Tell ", batch[k]["a"].v[1], " and ", batch[k]["b"].v[1]>>

\* C11: every LLMChain._call the chain answered made exactly one backend call,
\* with the formatted prompt, and returned the OutputRecord whose output-key
\* value is the text the backend generated for that call, as it is; predict
\* returns that text.
C11_OneCallRawText ==
    ~IsParallel =>
        /\ Len(records) = pos /\ Len(generated) = pos
        /\ \A k \in 1..pos :
              /\ CallsOf(k) # {}
              /\ \A c \in CallsOf(k) :
                    CopiesIn(c, calls) = 1 /\ c.prompt = PromptOf(k)
              /\ Cardinality(CallsOf(k)) = 1
              /\ DOMAIN records[k] = {chain.output_key}
              /\ records[k][chain.output_key] = generated[k]
              /\ predict(records[k]) = generated[k]
        /\ BagCardinality(calls) \in {pos, pos + 1}
        /\ BagCardinality(calls) = pos + 1 => pc = "raised"

\* a single InputSet with two variables: one call with the prompt
\* "Tell x and z", the backend generated "A,B", the record holds "A,B"
C11_Witness ==
    /\ ~IsParallel /\ pc = "returned"
    /\ Len(batch) = 1
    /\ BagCardinality(calls) = 1
    /\ \E c \in BagToSet(calls) : c.prompt = <<"Tell ", "x", " and ", "z">>
    /\ generated = << <<"A", ",", "B">> >>
    /\ records[1]["text"] = <<"A", ",", "B">>

\* C12: every backend call of ParallelChain._call requests the chain's
\* configured n when one is configured, and otherwise the n of the
\* invocation (1 when the caller passes none).
C12_RequestedCompletions ==
    IsParallel =>
        \A c \in BagToSet(calls) :
            c.n = (IF chain.n # None THEN chain.n ELSE arg_n)

\* the chain is configured with n = 2 and invoked with n = 1: the calls of
\* all the branches asked for 2 completions and each returned 2
C12_Witness ==
    /\ IsParallel /\ pc = "returned"
    /\ chain.n = 2 /\ arg_n = 1
    /\ Len(branches) >= 2
    /\ BagCardinality(calls) = Len(branches)
    /\ \A c \in BagToSet(calls) : c.n = 2
    /\ \A i \in 1..Len(fs) : Len(fs[i].result) = 2

\* C13: every backend call of one ParallelChain._call invocation gets the
\* same stop option: the stop value of the invocation's inputs when the key
\* is there, and no stop argument when it is not.
C13_SharedStop ==
    IsParallel =>
        \A c \in BagToSet(calls) :
            IF "stop" \in DOMAIN inputs
            THEN c.stop = <<inputs["stop"].v>>
            ELSE c.stop = <<>>

\* three branches, stop = ["X"] in the inputs: three calls, each with ["X"]
C13_Witness ==
    /\ IsParallel /\ pc = "returned"
    /\ "stop" \in DOMAIN inputs
    /\ Len(branches) >= 3
    /\ BagCardinality(calls) = Len(branches)
    /\ \A i \in 1..Len(branches) :
          \E c \in CallsOf(i) : c.stop = << <<"X">> >>

\* the values the expansion takes for the i-th declared variable when the
\* parser lambda l: l[1:] has been applied once to a list and not at all to
\* a scalar
ParsedOnce(i) ==
    LET v == inputs[chain.input_variables[i]]
    IN  IF v.t = "str" THEN {v.v[1]}
        ELSE {v.v[j] : j \in 2..Len(v.v)}

\* the values the branches hold for the i-th declared variable
Column(i) == {branches[k][chain.input_variables[i]] : k \in 1..Len(branches)}

\* C14: with an input parser configured, the expansion uses, for every
\* list-valued selected entry, the list the parser returns for it (the parser
\* applied once), and every scalar entry as it is.
C14_InputParserOnce ==
    (Expanded /\ chain.input_parser = "tail") =>
        /\ Len(branches) =
              Prod([i \in 1..Len(chain.input_variables) |-> Cardinality(ParsedOnce(i))])
        /\ \A i \in 1..Len(chain.input_variables) :
              /\ Column(i) \subseteq ParsedOnce(i)
              /\ branches # <<>> => Column(i) = ParsedOnce(i)
              /\ inputs[chain.input_variables[i]].t = "str" =>
                    \A k \in 1..Len(branches) :
                        branches[k][chain.input_variables[i]] =
                            inputs[chain.input_variables[i]].v[1]

\* {a: ["x","y"], b: "z"} with the parser l[1:]: the one branch {a:"y", b:"z"},
\* sent to the backend as "Tell y and z"
C14_Witness ==
    /\ IsParallel /\ pc = "returned"
    /\ chain.input_parser = "tail"
    /\ chain.input_variables = <<"a", "b">>
    /\ inputs["a"] = List(<<"x", "y">>) /\ inputs["b"] = Str("z")
    /\ Len(branches) = 1
    /\ branches[1]["a"] = "y" /\ branches[1]["b"] = "z"
    /\ \E c \in CallsOf(1) : c.prompt = <<"Tell ", "y", " and ", "z">>

\* C15: no step of a ParallelChain._call invocation (the caller's steps and
\* the steps of the concurrent branch calls, in any interleaving) changes the
\* chain configuration or the caller's input mapping.
C15_FrameUnchanged == [][chain' = chain /\ inputs' = inputs]_vars

\* the invocation is over, its input parser turned ["x","y"] into ["y"] for
\* the expansion, and the caller's mapping still holds ["x","y"]
C15_Witness ==
    /\ IsParallel /\ pc = "returned"
    /\ chain.input_parser = "tail"
    /\ inputs["a"] = List(<<"x", "y">>)
    /\ Len(branches) = 1 /\ branches[1]["a"] = "y"
    /\ BagCardinality(calls) = 1
    /\ output # <<>>

\* the prompt of branch i: the template's text with the branch's values
BranchPrompt(i) ==
    IF Len(chain.input_variables) = 1
    THEN <<"Tell ", branches[i]["a"]>>
    ELSE <<"Tell ", branches[i]["a"], " and ", branches[i]["b"]>>

\* C17: in a returned ParallelChain._call invocation every branch was sent to
\* the backend exactly once, so the number of backend calls is the product of
\* the lengths of the per-variable value sequences; with an empty list among
\* them there is no branch, no backend call and the returned value is empty.
C17_EachBranchOnce ==
    (IsParallel /\ pc = "returned") =>
        /\ BagCardinality(calls) =
              Prod([i \in 1..Len(chain.input_variables) |-> Len(Pool(i))])
        /\ \A c \in BagToSet(calls) : c.branch \in 1..Len(branches)
        /\ \A i \in 1..Len(branches) :
              /\ Cardinality(CallsOf(i)) = 1
              /\ \A c \in CallsOf(i) :
                    CopiesIn(c, calls) = 1 /\ c.prompt = BranchPrompt(i)
        /\ (\E i \in 1..Len(chain.input_variables) : Pool(i) = <<>>) =>
              /\ branches = <<>> /\ fs = <<>>
              /\ calls = EmptyBag
              /\ output = <<>>

\* two values for each of two variables on a pool of one worker: four
\* branches, four calls, one per branch
C17_Witness ==
    /\ IsParallel /\ pc = "returned"
    /\ chain.max_branching_factor = 1
    /\ Len(Pool(1)) = 2 /\ Len(chain.input_variables) = 2 /\ Len(Pool(2)) = 2
    /\ Len(branches) = 4
    /\ BagCardinality(calls) = 4
    /\ \A i \in 1..4 : Cardinality(CallsOf(i)) = 1

\* {a: [], b: ["z","u"]}: the invocation returned the empty list without a
\* backend call
C17_EmptyListReturned ==
    /\ IsParallel /\ pc = "returned"
    /\ chain.input_variables = <<"a", "b">>
    /\ inputs["a"] = List(<<>>) /\ inputs["b"] = List(<<"z", "u">>)
    /\ calls = EmptyBag /\ output = <<>>

\* C18: the backend error raised out of ParallelChain._call is the exception
\* of the failed branch call with the smallest position in submission order,
\* whichever call failed first in time and however the calls interleave.
C18_SmallestFailedPosition ==
    IsParallel =>
        /\ err = "BackendError" => (pc = "raised" /\ raised_from # 0)
        /\ raised_from # 0 =>
              /\ pc \in {"cancel", "raised"}
              /\ raised_from \in 1..Len(fs)
              /\ Failed(raised_from)
              /\ pc = "raised" => err = fs[raised_from].exc
              /\ \A j \in 1..Len(fs) : Failed(j) => raised_from <= j

\* on two workers the call of branch 2 failed first, then the call of branch
\* 1 failed: the error raised is that of branch 1
C18_Witness ==
    /\ IsParallel /\ pc = "raised"
    /\ Len(branches) = 2
    /\ reverse_order
    /\ Failed(1) /\ Failed(2)
    /\ raised_from = 1

\* the parser that insists on a comma raises on the raw string r
StrictRaisesOn(r) == \A j \in 1..Len(r) : r[j] # ","

\* C20: when the output parser raises on a raw string, ParallelChain._call
\* raises the parser's error and returns nothing, whatever it had parsed from
\* the strings before; by then every branch's backend call has returned
\* successfully.  An invocation returns only if the parser raised on none.
C20_ParserErrorPropagates ==
    IsParallel =>
        /\ err = "ParserError" =>
              /\ pc = "raised"
              /\ output = <<>>
              /\ chain.output_parser = "strict"
              /\ Len(fs) = Len(branches) /\ Len(collected) = Len(fs)
              /\ \A i \in 1..Len(fs) : Succeeded(i)
              /\ queue = <<>> /\ taken = {} /\ running = {} /\ inflight = {}
              /\ BagCardinality(calls) = Len(branches)
              /\ \E j \in 1..Len(ConcatResults(Len(fs))) :
                    StrictRaisesOn(ConcatResults(Len(fs))[j])
        /\ (pc = "returned" /\ chain.output_parser = "strict") =>
              \A j \in 1..Len(ConcatResults(Len(fs))) :
                  ~StrictRaisesOn(ConcatResults(Len(fs))[j])

\* two branches returned "A,B" and "C": the parser split the first string
\* and raised on the second, the invocation raised and returned nothing
C20_Witness ==
    /\ IsParallel /\ pc = "raised" /\ err = "ParserError"
    /\ Len(fs) = 2
    /\ fs[1].result = << <<"A", ",", "B">> >>
    /\ fs[2].result = << <<"C">> >>
    /\ output = <<>>

\* every branch has been sent to the backend
AllBranchesCalled ==
    /\ pc \notin {"start", "map"}
    /\ Len(fs) = Len(branches)
    /\ \A i \in 1..Len(branches) : CallsOf(i) # {}

\* C16: under fair scheduling an invocation of ParallelChain._call on inputs
\* that name every variable sends every branch to the backend, and returns
\* its OutputRecord, unless a backend call fails (or the output parser
\* raises), however many branches there are for the pool's workers.
C16_EventuallyReturns ==
    /\ (IsParallel /\ pc = "start" /\ ~Missing(inputs))
          ~> (AllBranchesCalled \/ \E i \in 1..Len(fs) : Failed(i))
    /\ (IsParallel /\ pc = "start" /\ ~Missing(inputs))
          ~> \/ pc = "returned" /\ AllBranchesCalled
             \/ \E i \in 1..Len(fs) : Failed(i)
             \/ err = "ParserError"

\* four branches on a pool of one worker: all were called, one after the
\* other, and the invocation returned
C16_Witness ==
    /\ IsParallel /\ pc = "returned"
    /\ chain.max_branching_factor = 1
    /\ Len(branches) = 4
    /\ AllBranchesCalled
    /\ Len(output) >= 4

\* the backend calls in flight for the chain, over all its invocations
TotalInFlight ==
    Cardinality(UNION {{<<v, i>> : i \in invocations[v].inflight} :
                          v \in DOMAIN invocations})

\* C19: every invocation has a worker pool of its own: with k invocations
\* running at the same time on one chain, each has at most
\* max_branching_factor backend calls in flight, the chain at most
\* k * max_branching_factor, and a queued branch of an invocation whose own
\* pool has a free worker can be taken whatever the other invocations hold.
C19_PoolPerInvocation ==
    /\ \A v \in DOMAIN invocations :
          /\ Cardinality(invocations[v].inflight) <= chain.max_branching_factor
          /\ Cardinality(invocations[v].taken \cup invocations[v].running
                            \cup invocations[v].inflight)
                <= chain.max_branching_factor
          /\ (/\ invocations[v].queue # <<>>
              /\ Cardinality(invocations[v].taken \cup invocations[v].running
                                \cup invocations[v].inflight)
                    < chain.max_branching_factor)
                => ENABLED ConcurrentWorkerTake(v)
    /\ TotalInFlight <= Len(invocations) * chain.max_branching_factor

\* one worker per pool and two invocations: while the call of the first
\* invocation's branch is in flight, the second has its first call in flight
\* too and two of the chain's calls are in flight, more than one pool holds
C19_Witness ==
    /\ Len(invocations) = 2
    /\ chain.max_branching_factor = 1
    /\ \A v \in DOMAIN invocations :
          /\ Cardinality(invocations[v].inflight) = 1
          /\ invocations[v].queue # <<>>
    /\ TotalInFlight = 2

\* a worker holds the work item of a branch whose future is still PENDING
\* while the caller is in the finally clause: the future can yet be cancelled
\* and the item dropped
HeldItemPending ==
    /\ IsParallel /\ pc = "cancel"
    /\ \E i \in taken : fs[i].state = "PENDING" /\ cancelling >= i

\* the finally clause has cancelled the futures of branches 4 and 3 and not
\* yet that of branch 2, which a worker has started meanwhile
StartedDuringCancel ==
    /\ IsParallel /\ pc = "cancel"
    /\ Len(fs) = 4 /\ cancelling = 2
    /\ Failed(1) /\ fs[2].state = "RUNNING"
    /\ fs[3].state = "CANCELLED" /\ fs[4].state = "CANCELLED"
    /\ chain.max_branching_factor = 1

====
